---- MODULE Spec2Model ----
(***************************************************************************)
(* Model of the decorator pipeline of ts-primer (src/index.js).            *)
(*                                                                         *)
(* The compiled script defines the class Ryazi with one static method,     *)
(* modifyNumbers, decorates the method with `square` and the class with    *)
(* `sealed`, and then calls the method.  The TypeScript source of the same *)
(* file has `@sealed` commented out.  Both variants are modelled; `variant`*)
(* selects between them.                                                   *)
(*                                                                         *)
(* JavaScript numbers are modelled as exact rationals n/d in lowest terms  *)
(* (the inputs are small integers, for which double arithmetic is exact),  *)
(* plus NaN.  Strings, arrays and symbols are modelled as far as           *)
(* Math.pow's ToNumber coercion tells them apart.                          *)
(***************************************************************************)
EXTENDS Integers, Sequences, FiniteSets, TLC

\* ---------------------------------------------------------------- bounds
MaxNum == 2     \* numeric leaves are the integers -MaxNum..MaxNum
MaxLen == 2     \* at most MaxLen leaves in the arguments of one call
MaxArgs == 2    \* at most MaxArgs arguments in one call

\* ------------------------------------------------------ JavaScript values
JsVal(t, n, d, s, e) == [t |-> t, n |-> n, d |-> d, s |-> s, e |-> e]

Abs(x) == IF x < 0 THEN -x ELSE x

RECURSIVE GCD(_, _)
GCD(a, b) == IF b = 0 THEN a ELSE GCD(b, a % b)

\* the number n/d (d > 0), in lowest terms
Rat(n, d) ==
    LET g == GCD(Abs(n), d)
    IN  JsVal("num", n \div g, d \div g, "", <<>>)

Num(n) == Rat(n, 1)
NaN == JsVal("nan", 0, 1, "", <<>>)
Str(s) == JsVal("str", 0, 1, s, <<>>)
Arr(e) == JsVal("arr", 0, 1, "", e)
Sym == JsVal("sym", 0, 1, "", <<>>)
Undefined == JsVal("undefined", 0, 1, "", <<>>)
\* Numbers are IEEE doubles.  Huge is a finite number whose square is above
\* the largest double (1e200), Tiny one whose square is below the smallest
\* (1e-200); Inf is Infinity.
Huge == JsVal("huge", 0, 1, "", <<>>)
Tiny == JsVal("tiny", 0, 1, "", <<>>)
Inf == JsVal("inf", 0, 1, "", <<>>)
\* the completion of an operation that threw a TypeError
Thrown == JsVal("throw", 0, 1, "", <<>>)

IsNum(v) == v.t = "num"
\* typeof v is "number" and v is finite
IsFinite(v) == v.t \in {"num", "huge", "tiny"}
IsArr(v) == v.t = "arr"

\* StringToNumber on the strings of the model
StrToNumber(s) ==
    CASE s = ""  -> Num(0)
      [] s = "3" -> Num(3)
      [] OTHER   -> NaN

\* ToNumber, as Math.pow and the operator / apply it to an operand.  An
\* array is converted through Array.prototype.join: no element gives "",
\* one element gives that element's string, several give a string with a
\* comma, which is not a numeric literal.  A symbol throws.
RECURSIVE ToNumber(_)
ToNumber(v) ==
    CASE v.t = "num"       -> v
      [] v.t \in {"huge", "tiny", "inf"} -> v
      [] v.t = "nan"       -> NaN
      [] v.t = "undefined" -> NaN
      [] v.t = "str"       -> StrToNumber(v.s)
      [] v.t = "sym"       -> Thrown
      [] v.t = "arr"       ->
            IF \E i \in 1..Len(v.e) : ToNumber(v.e[i]).t = "throw" THEN Thrown
            ELSE IF Len(v.e) = 0 THEN Num(0)
            ELSE IF Len(v.e) = 1 THEN
                 (IF v.e[1].t = "undefined" THEN Num(0) ELSE ToNumber(v.e[1]))
            ELSE NaN
      [] OTHER             -> Thrown

\* mutant: the operand is converted but not squared
MathPow2NotSquared(v) == ToNumber(v)

\* Math.pow(n, 2)
MathPow2(v) ==
    LET x == ToNumber(v)
    IN  CASE x.t = "num"  -> Rat(x.n * x.n, x.d * x.d)
          [] x.t = "huge" -> Inf
          [] x.t = "tiny" -> Num(0)
          [] OTHER        -> x

\* mutant: the operand is converted but not halved
Div2NotHalved(v) == ToNumber(v)

\* n / 2
Div2(v) ==
    LET x == ToNumber(v)
    IN  IF x.t = "num" THEN Rat(x.n, x.d * 2) ELSE x

\* mutant: no flattening
FlatNone(a) == a

\* mutant: flattening through every level
RECURSIVE FlatDeep(_)
FlatDeep(a) ==
    IF a = <<>> THEN <<>>
    ELSE (IF IsArr(Head(a)) THEN FlatDeep(Head(a).e) ELSE <<Head(a)>>)
         \o FlatDeep(Tail(a))

\* mutant: the elements of an array argument are appended back to front
RECURSIVE FlatReversed(_)
FlatReversed(a) ==
    IF a = <<>> THEN <<>>
    ELSE (IF IsArr(Head(a))
          THEN [i \in 1..Len(Head(a).e) |-> Head(a).e[Len(Head(a).e) + 1 - i]]
          ELSE <<Head(a)>>) \o FlatReversed(Tail(a))

\* Array.prototype.flat(): one level
RECURSIVE Flat(_)
Flat(a) ==
    IF a = <<>> THEN <<>>
    ELSE (IF IsArr(Head(a)) THEN Head(a).e ELSE <<Head(a)>>) \o Flat(Tail(a))

\* .map(function (n) { return Math.pow(n, 2); })
MapPow2(a) == [i \in 1..Len(a) |-> MathPow2(a[i])]

\* .map(function (n) { return n / 2; })
MapDiv2(a) == [i \in 1..Len(a) |-> Div2(a[i])]

AnyThrown(a) == \E i \in 1..Len(a) : a[i].t = "throw"

\* ------------------------------------------------------------- functions
\* A completion: how a call ended, the value it returned, and the steps it
\* went through.
Completion(o, v, tr) == [outcome |-> o, value |-> v, trace |-> tr]

Step(op, v) == [op |-> op, v |-> v]

\* The body of the undecorated Ryazi.modifyNumbers
HalveBody(args) ==
    LET numbers == IF Len(args) = 0 THEN Undefined ELSE args[1]
    IN  IF ~IsArr(numbers) THEN Completion("TypeError", Undefined, <<>>)
        ELSE LET r == MapDiv2(numbers.e)
             IN  IF AnyThrown(r) THEN Completion("TypeError", Undefined, <<>>)
                 ELSE Completion("return", Arr(r),
                                 <<Step("halve", Arr(numbers.e))>>)

\* A function another script may store in the member: returns its argument
OtherBody(args) ==
    Completion("return", IF Len(args) = 0 THEN Undefined ELSE args[1],
               <<Step("other", Arr(args))>>)

\* Calling the function value captured by the wrapper's closure
CallOriginal(fn, args) ==
    IF fn = "halve" THEN HalveBody(args) ELSE OtherBody(args)

\* mutant: only a first array argument is taken, the rest are dropped
CollectFirstArray(arguments) ==
    IF Len(arguments) > 0 /\ IsArr(arguments[1]) THEN <<arguments[1]>>
    ELSE arguments

\* var args = []; for (...) args[_i] = arguments[_i];   (...args)
CollectArgs(arguments) == [i \in 1..Len(arguments) |-> arguments[i]]

\* mutant: the original is called first and its result is squared
HalveThenSquare(orig, arguments) ==
    LET flat == Flat(CollectArgs(arguments))
        r == CallOriginal(orig, <<Arr(flat)>>)
    IN  IF r.outcome # "return" \/ ~IsArr(r.value) THEN r
        ELSE LET sq == MapPow2(r.value.e)
             IN  Completion("return", Arr(sq),
                            <<Step("flat", Arr(flat))>> \o r.trace
                            \o <<Step("square", Arr(sq))>>)

\* The function `square` stores in the descriptor
SquareWrapper(orig, arguments) ==
    LET flat == Flat(CollectArgs(arguments))
        sq == MapPow2(flat)
    IN  IF AnyThrown(sq)
        THEN Completion("TypeError", Undefined, <<Step("flat", Arr(flat))>>)
        ELSE LET r == CallOriginal(orig, <<Arr(sq)>>)
             IN  Completion(r.outcome, r.value,
                            <<Step("flat", Arr(flat)), Step("square", Arr(sq))>>
                            \o r.trace)

\* --------------------------------------------------- the arrays of a call
\* The array objects a call reads and creates, as a heap: the sequence of
\* the arrays' contents, an array's identity being its index.  The arrays
\* the caller passes come first, in argument order.
CallerArrays(arguments) ==
    LET a == SelectSeq(arguments, IsArr)
    IN  [i \in 1..Len(a) |-> a[i].e]

\* a new array object with the contents e
Alloc(h, e) == Append(h, e)

Effect(h, ret) == [heap |-> h, ret |-> ret]

\* numbers.map(...) in modifyNumbers: a new array; `numbers` is array `id`
HalveHeap(h, id) ==
    IF id = 0 \/ AnyThrown(MapDiv2(h[id])) THEN Effect(h, 0)
    ELSE Effect(Alloc(h, MapDiv2(h[id])), Len(h) + 1)

\* the captured function called on array `id`
OriginalHeap(fn, h, id) ==
    IF fn = "halve" THEN HalveHeap(h, id) ELSE Effect(h, id)

\* mutant: a single array argument is squared in place and passed on
SquareWrapperInPlace(orig, h, arguments) ==
    IF Len(arguments) = 1 /\ IsArr(arguments[1]) /\ ~AnyThrown(MapPow2(h[1]))
    THEN OriginalHeap(orig, [h EXCEPT ![1] = MapPow2(h[1])], 1)
    ELSE Effect(h, 0)

\* the wrapper: the rest array, args.flat() and .map() are new arrays
SquareWrapperHeap(orig, h, arguments) ==
    LET h1 == Alloc(h, CollectArgs(arguments))
        h2 == Alloc(h1, Flat(h1[Len(h1)]))
        sq == MapPow2(h2[Len(h2)])
    IN  IF AnyThrown(sq) THEN Effect(h2, 0)
        ELSE OriginalHeap(orig, Alloc(h2, sq), Len(h2) + 1)

\* the arrays after calling a function value on the caller's arrays
CallFnHeap(fn, orig, arguments) ==
    LET h == CallerArrays(arguments)
        first == IF Len(arguments) > 0 /\ IsArr(arguments[1]) THEN 1 ELSE 0
    IN  IF fn = "wrapper" THEN SquareWrapperHeap(orig, h, arguments)
        ELSE OriginalHeap(fn, h, first)

\* Calling a function value
CallFn(fn, orig, args) ==
    IF fn = "wrapper" THEN SquareWrapper(orig, args)
    ELSE CallOriginal(fn, args)

\* ------------------------------------------------------- inputs of a call
Nums == {Num(n) : n \in -MaxNum..MaxNum}
Extremes == {Huge, Tiny}
NonNums == {Str("abc"), Str("3"), Arr(<<Num(2)>>), Sym}
Leaves == Nums \cup Extremes \cup NonNums

\* An argument is a leaf (part -1) or an array of k leaves (part k)
Parts == {-1} \cup (0..MaxLen)
PartLeaves(p) == IF p = -1 THEN 1 ELSE p

RECURSIVE ShapeLeaves(_)
ShapeLeaves(sh) ==
    IF sh = <<>> THEN 0 ELSE PartLeaves(Head(sh)) + ShapeLeaves(Tail(sh))

Shapes ==
    {sh \in UNION {[1..k -> Parts] : k \in 0..MaxArgs} : ShapeLeaves(sh) <= MaxLen}

RECURSIVE Group(_, _)
Group(l, sh) ==
    IF sh = <<>> THEN <<>>
    ELSE LET p == Head(sh)
         IN  IF p = -1
             THEN <<l[1]>> \o Group(SubSeq(l, 2, Len(l)), Tail(sh))
             ELSE <<Arr(SubSeq(l, 1, p))>>
                  \o Group(SubSeq(l, p + 1, Len(l)), Tail(sh))

\* ------------------------------------------------------------------ state
VARIABLES
    variant,    \* "compiled": the script, @sealed applied; "source": not
    pc,         \* position in the class definition
    ext,        \* object -> whether it is extensible
    props,      \* object -> own property name -> descriptor
    original,   \* the function captured by the wrapper's closure
    lastCall,   \* the last call of Ryazi.modifyNumbers and its completion
    attempt,    \* the last attempt of other code to change an object
    sites       \* call site -> its invocation of the wrapper in progress

vars == <<variant, pc, ext, props, original, lastCall, attempt, sites>>

Objects == {"Ryazi", "prototype"}

Desc(v, w, e, c) ==
    [value |-> v, writable |-> w, enumerable |-> e, configurable |-> c]

NoProps == [k \in {} |-> Desc("none", FALSE, FALSE, FALSE)]

\* f with key k bound to d
Put(f, k, d) == [x \in DOMAIN f \cup {k} |-> IF x = k THEN d ELSE f[x]]

NoCall == [args |-> <<>>, leaves |-> <<>>, shape |-> <<>>, source |-> <<>>,
           heapBefore |-> <<>>, heapAfter |-> <<>>, ret |-> 0, fn |-> "none",
           outcome |-> "none", value |-> Undefined, trace |-> <<>>]

NoAttempt == [op |-> "none", obj |-> "none", attr |-> "none", strict |-> FALSE,
              existed |-> FALSE, outcome |-> "none", thenCalled |-> FALSE]

\* the call sites of other code
Sites == {"a", "b"}

\* an invocation: where it is in the wrapper, the arguments it was made
\* with, the wrapper's locals and the completion
Idle == [at |-> "idle", arguments |-> <<>>, args |-> <<>>, flat |-> <<>>,
         sq |-> <<>>, outcome |-> "none", value |-> Undefined]

Init ==
    /\ sites = [c \in Sites |-> Idle]
    /\ variant \in {"compiled", "source"}
    /\ pc = "class"
    /\ ext = [o \in Objects |-> TRUE]
    /\ props = [o \in Objects |-> NoProps]
    /\ original = "none"
    /\ lastCall = NoCall
    /\ attempt = NoAttempt

\* function Ryazi() {}  and  Ryazi.modifyNumbers = function (numbers) {...}
DefineClass ==
    /\ pc = "class"
    /\ props' = [props EXCEPT
          !["Ryazi"] = Put(Put(NoProps, "prototype",
                               Desc("prototype", TRUE, FALSE, FALSE)),
                           "modifyNumbers", Desc("halve", TRUE, TRUE, TRUE)),
          !["prototype"] = Put(NoProps, "constructor",
                               Desc("Ryazi", TRUE, FALSE, TRUE))]
    /\ pc' = "method"
    /\ UNCHANGED <<sites, variant, ext, original, lastCall, attempt>>

\* mutant: the descriptor's value is captured but not replaced
SquareKeepsOriginal(desc) == [captured |-> desc.value, desc |-> desc]

\* square(target, propertyKey, originalMethod): captures the descriptor's
\* value and replaces it by the wrapper; returns nothing
Square(desc) == [captured |-> desc.value,
                 desc |-> [desc EXCEPT !.value = "wrapper"]]

\* mutant: the decorated descriptor is not written back to the class
DecorateMethodNotInstalled ==
    /\ pc = "method"
    /\ original' = Square(props["Ryazi"]["modifyNumbers"]).captured
    /\ pc' = "decorate"
    /\ UNCHANGED <<sites, variant, ext, props, lastCall, attempt>>

\* __decorate([square], Ryazi, "modifyNumbers", null)
DecorateMethod ==
    /\ pc = "method"
    /\ LET r == Square(props["Ryazi"]["modifyNumbers"])
       IN  /\ original' = r.captured
           /\ props' = [props EXCEPT !["Ryazi"] = Put(@, "modifyNumbers", r.desc)]
    /\ pc' = "decorate"
    /\ UNCHANGED <<sites, variant, ext, lastCall, attempt>>

\* mutant: the properties stay configurable (Object.preventExtensions)
SealKeepsConfigurable(p) == p

\* mutant: the properties are made read-only too (Object.freeze)
SealFreezes(p) ==
    [k \in DOMAIN p |-> [p[k] EXCEPT !.configurable = FALSE, !.writable = FALSE]]

\* Object.seal on the own properties p of an object: none is configurable
Seal(p) == [k \in DOMAIN p |-> [p[k] EXCEPT !.configurable = FALSE]]

\* Object.seal(o): o is no longer extensible, its properties are sealed
ObjectSeal(h, o) ==
    [ext |-> [h.ext EXCEPT ![o] = FALSE],
     props |-> [h.props EXCEPT ![o] = Seal(h.props[o])]]

\* mutant: only the prototype is sealed
SealedPrototypeOnly(h) == ObjectSeal(h, "prototype")

\* mutant: only the constructor is sealed
SealedConstructorOnly(h) == ObjectSeal(h, "Ryazi")

\* mutant: the decorator returns Object.seal(constructor.prototype), which
\* __decorate then binds to Ryazi in place of the class
SealedReturnsPrototype(h) ==
    LET r == ObjectSeal(ObjectSeal(h, "Ryazi"), "prototype")
    IN  [ext |-> r.ext, props |-> [r.props EXCEPT !["Ryazi"] = r.props["prototype"]]]

\* sealed(constructor)
Sealed(h) == ObjectSeal(ObjectSeal(h, "Ryazi"), "prototype")

\* Ryazi = __decorate([sealed], Ryazi)
DecorateClass ==
    /\ pc = "decorate"
    /\ variant = "compiled"
    /\ LET h == Sealed([ext |-> ext, props |-> props])
       IN  ext' = h.ext /\ props' = h.props
    /\ pc' = "ready"
    /\ UNCHANGED <<sites, variant, original, lastCall, attempt>>

\* // @sealed
NoClassDecorator ==
    /\ pc = "decorate"
    /\ variant = "source"
    /\ pc' = "ready"
    /\ UNCHANGED <<sites, variant, ext, props, original, lastCall, attempt>>

\* Ryazi.modifyNumbers(...args): the member is looked up and called
Invoke(sh, l, src) ==
    LET args == Group(l, sh)
        has == "modifyNumbers" \in DOMAIN props["Ryazi"]
        fn == IF has THEN props["Ryazi"]["modifyNumbers"].value ELSE "undefined"
        c == IF fn \in {"halve", "wrapper", "other"}
             THEN CallFn(fn, original, args)
             ELSE Completion("TypeError", Undefined, <<>>)
        eff == IF fn \in {"halve", "wrapper", "other"}
               THEN CallFnHeap(fn, original, args)
               ELSE Effect(CallerArrays(args), 0)
    IN  lastCall' = [args |-> args, leaves |-> l, shape |-> sh, source |-> src,
                     heapBefore |-> CallerArrays(args),
                     heapAfter |-> eff.heap, ret |-> eff.ret, fn |-> fn,
                     outcome |-> c.outcome, value |-> c.value,
                     trace |-> c.trace]

\* console.log(Ryazi.modifyNumbers([2, 3, 4]))
ScriptCall ==
    /\ pc = "ready"
    /\ pc' = "done"
    /\ Invoke(<<3>>, <<Num(2), Num(3), Num(4)>>, <<>>)
    /\ UNCHANGED <<sites, variant, ext, props, original, attempt>>

\* the script's call with other arguments in place of [2, 3, 4]
Call ==
    /\ pc = "ready"
    /\ pc' = "done"
    /\ \E sh \in Shapes :
         \E l \in [1..ShapeLeaves(sh) -> Leaves] : Invoke(sh, l, <<>>)
    /\ UNCHANGED <<sites, variant, ext, props, original, attempt>>

\* Ryazi.modifyNumbers(Ryazi.modifyNumbers(...)): the result of the call is
\* the one argument of a second call
CallAgain ==
    /\ pc = "done"
    /\ lastCall.outcome = "return"
    /\ IsArr(lastCall.value)
    /\ pc' = "again"
    /\ Invoke(<<Len(lastCall.value.e)>>, lastCall.value.e, lastCall.leaves)
    /\ UNCHANGED <<sites, variant, ext, props, original, attempt>>

Next ==
    \/ DefineClass
    \/ DecorateMethod
    \/ DecorateClass
    \/ NoClassDecorator
    \/ ScriptCall
    \/ Call
    \/ CallAgain

Spec == Init /\ [][Next]_vars

\* ------------------------------------------- invocations from several sites
\* The engine runs each call to completion; here the invocations of the
\* call sites are interleaved expression by expression, which allows every
\* order the engine allows and more.
SiteInputs ==
    { <<Arr(<<Num(2), Num(3), Num(4)>>)>>,
      <<Num(-2), Arr(<<Num(1)>>)>>,
      <<Arr(<<Str("abc"), Sym>>)>> }

\* mutant: one activation record for all invocations
FrameShared(c) == "a"

\* the activation record of the invocation of site c: the wrapper's `args`
\* and the values of its subexpressions are local to the invocation
FrameOf(c) == c

\* site c calls Ryazi.modifyNumbers(...): the arguments are collected
SiteCall(c, arguments) ==
    /\ pc = "done"
    /\ sites[c].at \in {"idle", "returned"}
    /\ props["Ryazi"]["modifyNumbers"].value = "wrapper"
    /\ sites' = [[sites EXCEPT ![FrameOf(c)].args = CollectArgs(arguments)]
                    EXCEPT ![c].at = "collected", ![c].arguments = arguments,
                           ![c].outcome = "none", ![c].value = Undefined]
    /\ UNCHANGED <<variant, pc, ext, props, original, lastCall, attempt>>

\* args.flat()
SiteFlat(c) ==
    /\ sites[c].at = "collected"
    /\ sites' = [[sites EXCEPT ![FrameOf(c)].flat = Flat(sites[FrameOf(c)].args)]
                    EXCEPT ![c].at = "flat"]
    /\ UNCHANGED <<variant, pc, ext, props, original, lastCall, attempt>>

\* .map(function (n) { return Math.pow(n, 2); }); a throw ends the call
SiteSquare(c) ==
    /\ sites[c].at = "flat"
    /\ LET sq == MapPow2(sites[FrameOf(c)].flat)
       IN  sites' = IF AnyThrown(sq)
                    THEN [sites EXCEPT ![c].at = "returned",
                                       ![c].outcome = "TypeError"]
                    ELSE [[sites EXCEPT ![FrameOf(c)].sq = sq]
                             EXCEPT ![c].at = "squared"]
    /\ UNCHANGED <<variant, pc, ext, props, original, lastCall, attempt>>

\* mutant: the call stores the wrapper in the closure variable `original`
SiteOriginalRecaptures(c) ==
    /\ sites[c].at = "squared"
    /\ LET r == CallOriginal(original, <<Arr(sites[FrameOf(c)].sq)>>)
       IN  sites' = [sites EXCEPT ![c].at = "returned",
                                  ![c].outcome = r.outcome,
                                  ![c].value = r.value]
    /\ original' = props["Ryazi"]["modifyNumbers"].value
    /\ UNCHANGED <<variant, pc, ext, props, lastCall, attempt>>

\* return original(...)
SiteOriginal(c) ==
    /\ sites[c].at = "squared"
    /\ LET r == CallOriginal(original, <<Arr(sites[FrameOf(c)].sq)>>)
       IN  sites' = [sites EXCEPT ![c].at = "returned",
                                  ![c].outcome = r.outcome,
                                  ![c].value = r.value]
    /\ UNCHANGED <<variant, pc, ext, props, original, lastCall, attempt>>

SiteStep ==
    \E c \in Sites :
       \/ \E arguments \in SiteInputs : SiteCall(c, arguments)
       \/ SiteFlat(c)
       \/ SiteSquare(c)
       \/ SiteOriginal(c)

NextCalls ==
    \/ DefineClass
    \/ DecorateMethod
    \/ DecorateClass
    \/ NoClassDecorator
    \/ ScriptCall
    \/ SiteStep

SpecCalls == Init /\ [][NextCalls]_vars

\* ----------------------------------------------- other code, after the script
\* a later call of Ryazi.modifyNumbers([2, 3, 4]) by other code
ExternalCall ==
    /\ pc = "done"
    /\ Invoke(<<3>>, <<Num(2), Num(3), Num(4)>>, <<>>)
    /\ attempt' = IF attempt.op = "none" THEN attempt
                  ELSE [attempt EXCEPT !.thenCalled = TRUE]
    /\ UNCHANGED <<sites, variant, pc, ext, props, original>>

\* the property names other code tries
EnvKeys(o) == IF o = "Ryazi" THEN {"modifyNumbers", "extra"}
              ELSE {"constructor", "extra"}

\* the result of an operation the object rejected: a TypeError in strict
\* code; in the non-strict code of the compiled script an assignment does
\* nothing and delete evaluates to false
Rejected(op, strict) ==
    IF strict THEN "TypeError" ELSE IF op = "delete" THEN "false" ELSE "ignored"

Attempt(op, attr, o, k, strict, out) ==
    [op |-> op, obj |-> o, attr |-> attr, strict |-> strict,
     existed |-> k \in DOMAIN props[o], outcome |-> out, thenCalled |-> FALSE]

\* o[k] = function () {...}    (OrdinarySet on an object sealed or not)
AssignProp(o, k, strict) ==
    /\ pc = "done"
    /\ LET p == props[o]
           allowed == IF k \in DOMAIN p THEN p[k].writable ELSE ext[o]
       IN  /\ props' = IF ~allowed THEN props
                       ELSE IF k \in DOMAIN p
                            THEN [props EXCEPT ![o][k].value = "other"]
                            ELSE [props EXCEPT
                                     ![o] = Put(p, k, Desc("other", TRUE, TRUE, TRUE))]
           /\ attempt' = Attempt("assign", "value", o, k, strict,
                                 IF allowed THEN "ok" ELSE Rejected("assign", strict))
    /\ UNCHANGED <<sites, variant, pc, ext, original, lastCall>>

\* delete o[k]
DeleteProp(o, k, strict) ==
    /\ pc = "done"
    /\ LET p == props[o]
           allowed == k \in DOMAIN p => p[k].configurable
       IN  /\ props' = IF allowed
                       THEN [props EXCEPT
                                ![o] = [x \in DOMAIN p \ {k} |-> p[x]]]
                       ELSE props
           /\ attempt' = Attempt("delete", "none", o, k, strict,
                                 IF allowed THEN "ok" ELSE Rejected("delete", strict))
    /\ UNCHANGED <<sites, variant, pc, ext, original, lastCall>>

\* the descriptors other code passes to Object.defineProperty: a whole
\* descriptor for a new operation, or one attribute of an existing member
FullDesc == [value |-> "other", writable |-> TRUE, enumerable |-> TRUE,
             configurable |-> TRUE]

PartialDescs ==
    { [writable |-> FALSE], [enumerable |-> FALSE], [configurable |-> TRUE],
      FullDesc }

Has(D, f) == f \in DOMAIN D

\* the attribute a descriptor changes, "all" for a whole descriptor
DescAttr(D) == IF D = FullDesc THEN "all" ELSE CHOOSE f \in DOMAIN D : TRUE

\* ValidateAndApplyPropertyDescriptor, for data descriptors: whether the
\* change D of the existing property c is accepted
Validate(c, D) ==
    \/ c.configurable
    \/ /\ ~(Has(D, "configurable") /\ D.configurable)
       /\ ~(Has(D, "enumerable") /\ D.enumerable # c.enumerable)
       /\ \/ c.writable
          \/ /\ ~(Has(D, "writable") /\ D.writable)
             /\ ~(Has(D, "value") /\ D.value # c.value)

\* the property c with the fields of D applied
Apply(c, D) ==
    Desc(IF Has(D, "value") THEN D.value ELSE c.value,
         IF Has(D, "writable") THEN D.writable ELSE c.writable,
         IF Has(D, "enumerable") THEN D.enumerable ELSE c.enumerable,
         IF Has(D, "configurable") THEN D.configurable ELSE c.configurable)

\* Object.defineProperty(o, k, D): throws when the object rejects it
DefineProp(o, k, D) ==
    /\ pc = "done"
    /\ LET p == props[o]
           allowed == IF k \in DOMAIN p THEN Validate(p[k], D) ELSE ext[o]
           cur == IF k \in DOMAIN p THEN p[k]
                  ELSE Desc("undefined", FALSE, FALSE, FALSE)
       IN  /\ props' = IF allowed
                       THEN [props EXCEPT ![o] = Put(p, k, Apply(cur, D))]
                       ELSE props
           /\ attempt' = Attempt("define", DescAttr(D), o, k, TRUE,
                                 IF allowed THEN "ok" ELSE "TypeError")
    /\ UNCHANGED <<sites, variant, pc, ext, original, lastCall>>

EnvAssign == \E o \in Objects : \E k \in EnvKeys(o) : \E strict \in BOOLEAN :
                AssignProp(o, k, strict)
EnvDelete == \E o \in Objects : \E k \in EnvKeys(o) : \E strict \in BOOLEAN :
                DeleteProp(o, k, strict)
EnvDefine == \E o \in Objects : \E k \in EnvKeys(o) : \E D \in PartialDescs :
                /\ k \in DOMAIN props[o] \/ D = FullDesc
                /\ DefineProp(o, k, D)

NextEnv ==
    \/ DefineClass
    \/ DecorateMethod
    \/ DecorateClass
    \/ NoClassDecorator
    \/ ScriptCall
    \/ ExternalCall
    \/ EnvAssign
    \/ EnvDelete
    \/ EnvDefine

SpecEnv == Init /\ [][NextEnv]_vars

\* ---------------------------------------------------------------- claims
Called == lastCall.fn # "none"
Returned == Called /\ lastCall.outcome = "return"
AllNum(a) == \A i \in 1..Len(a) : IsNum(a[i])

\* r = x^2 / 2 as rationals, by cross-multiplication
IsSquareHalf(r, x) == IsNum(r) /\ r.n * 2 * x.d * x.d = x.n * x.n * r.d

\* the call had one argument, an array of numbers
OneNumArray ==
    /\ Called
    /\ Len(lastCall.args) = 1
    /\ IsArr(lastCall.args[1])
    /\ AllNum(lastCall.args[1].e)

\* C1: for a single argument S, an array of numbers, the decorated
\* modifyNumbers returns an array whose i-th element is S[i]^2 / 2, for
\* every index i of S.
C1_SquareHalfAtEveryIndex ==
    OneNumArray /\ lastCall.fn = "wrapper" =>
        /\ Returned
        /\ IsArr(lastCall.value)
        /\ \A i \in 1..Len(lastCall.args[1].e) :
              /\ i \in DOMAIN lastCall.value.e
              /\ IsSquareHalf(lastCall.value.e[i], lastCall.args[1].e[i])

C1_Witness ==
    /\ pc = "done"
    /\ lastCall.fn = "wrapper"
    /\ lastCall.args = <<Arr(<<Num(2), Num(3), Num(4)>>)>>
    /\ lastCall.value = Arr(<<Num(2), Rat(9, 2), Num(8)>>)

\* C2: for a single argument S, an array of numbers, the result has the
\* length of S and its i-th element is the one computed from S[i] alone.
C2_SameLengthSameOrder ==
    OneNumArray /\ lastCall.fn = "wrapper" =>
        /\ Returned
        /\ Len(lastCall.value.e) = Len(lastCall.args[1].e)
        /\ \A i \in 1..Len(lastCall.args[1].e) :
              <<lastCall.value.e[i]>> =
                 SquareWrapper(original, <<Arr(<<lastCall.args[1].e[i]>>)>>).value.e

C2_Witness ==
    /\ pc = "done"
    /\ OneNumArray
    /\ Len(lastCall.args[1].e) = MaxLen
    /\ lastCall.args[1].e[1] # lastCall.args[1].e[MaxLen]
    /\ lastCall.value.e[1] # lastCall.value.e[MaxLen]
    /\ Len(lastCall.value.e) = MaxLen

\* C3: a call through the wrapper flattens, then squares, then calls the
\* original halving operation exactly once, on the squared sequence, and
\* returns what that call returned; [2,3,4] goes through [4,9,16] to
\* [2,4.5,8] and never gives [1,2.25,4].
C3_FlattenSquareThenHalve ==
    /\ Returned /\ lastCall.fn = "wrapper" =>
          /\ Len(lastCall.trace) = 3
          /\ lastCall.trace[1].op = "flat"
          /\ lastCall.trace[2].op = "square"
          /\ lastCall.trace[3].op = "halve"
          /\ lastCall.trace[3].v = lastCall.trace[2].v
          /\ Len(lastCall.trace[2].v.e) = Len(lastCall.trace[1].v.e)
          /\ \A i \in 1..Len(lastCall.trace[1].v.e) :
                IsNum(lastCall.trace[1].v.e[i]) =>
                   /\ IsNum(lastCall.trace[2].v.e[i])
                   /\ lastCall.trace[2].v.e[i].n * lastCall.trace[1].v.e[i].d
                                                 * lastCall.trace[1].v.e[i].d
                      = lastCall.trace[1].v.e[i].n * lastCall.trace[1].v.e[i].n
                                                   * lastCall.trace[2].v.e[i].d
          /\ lastCall.value = HalveBody(<<lastCall.trace[3].v>>).value
    /\ lastCall.fn = "wrapper"
       /\ lastCall.args = <<Arr(<<Num(2), Num(3), Num(4)>>)>> =>
          /\ lastCall.trace[2].v = Arr(<<Num(4), Num(9), Num(16)>>)
          /\ lastCall.value = Arr(<<Num(2), Rat(9, 2), Num(8)>>)
          /\ lastCall.value # Arr(<<Num(1), Rat(9, 4), Num(4)>>)

C3_Witness ==
    /\ pc = "done"
    /\ lastCall.args = <<Arr(<<Num(2), Num(3), Num(4)>>)>>
    /\ Len(lastCall.trace) = 3
    /\ lastCall.trace[1].v = Arr(<<Num(2), Num(3), Num(4)>>)
    /\ lastCall.trace[2].v = Arr(<<Num(4), Num(9), Num(16)>>)
    /\ lastCall.trace[3].op = "halve"

\* C4: modifyNumbers([]) returns [], and so does every call whose
\* arguments flatten to nothing.
C4_EmptyGivesEmpty ==
    Called /\ lastCall.fn = "wrapper" /\ lastCall.leaves = <<>> =>
        /\ Returned
        /\ lastCall.value = Arr(<<>>)

C4_Witness ==
    /\ pc = "done"
    /\ lastCall.args = <<Arr(<<>>)>>
    /\ lastCall.outcome = "return"
    /\ lastCall.value = Arr(<<>>)

\* C5: for a number x, modifyNumbers([-x]) equals modifyNumbers([x]), every
\* element computed from a number is >= 0, modifyNumbers([0]) is [0] and
\* modifyNumbers([-2]) is [2].
C5_SignEliminated ==
    OneNumArray /\ lastCall.fn = "wrapper" =>
        /\ \A i \in 1..Len(lastCall.value.e) :
              IsNum(lastCall.value.e[i]) /\ lastCall.value.e[i].n >= 0
        /\ Len(lastCall.args[1].e) = 1 =>
              LET x == lastCall.args[1].e[1]
                  neg == SquareWrapper(original, <<Arr(<<Rat(0 - x.n, x.d)>>)>>)
              IN  /\ neg.outcome = lastCall.outcome
                  /\ neg.value = lastCall.value
        /\ lastCall.args = <<Arr(<<Num(0)>>)>> => lastCall.value = Arr(<<Num(0)>>)
        /\ lastCall.args = <<Arr(<<Num(-2)>>)>> => lastCall.value = Arr(<<Num(2)>>)

C5_Witness ==
    /\ pc = "done"
    /\ lastCall.fn = "wrapper"
    /\ lastCall.args = <<Arr(<<Num(-2)>>)>>
    /\ lastCall.value = Arr(<<Num(2)>>)

\* C8 (as claimed): a call with a non-numeric element ends in a failure at
\* the call site; it never returns a sequence.
C8_NonNumericFails ==
    Called /\ lastCall.fn = "wrapper" /\ pc = "done"
           /\ (\E i \in 1..Len(lastCall.leaves) : ~IsFinite(lastCall.leaves[i])) =>
        lastCall.outcome = "TypeError"

\* the call's arguments were numbers only, passed one by one
Variadic ==
    /\ Called
    /\ AllNum(lastCall.args)

\* C9: numbers passed one by one give what the same numbers give when they
\* are passed as one array.
C9_VariadicEqualsArray ==
    Variadic /\ lastCall.fn = "wrapper" =>
        LET one == SquareWrapper(original, <<Arr(lastCall.args)>>)
        IN  /\ Returned
            /\ one.outcome = lastCall.outcome
            /\ one.value = lastCall.value

C9_Witness ==
    /\ pc = "done"
    /\ lastCall.fn = "wrapper"
    /\ lastCall.args = <<Num(2), Num(-1)>>
    /\ lastCall.value = Arr(<<Num(2), Rat(1, 2)>>)

\* every argument of the call was an array
OnlyArrays == \A i \in 1..Len(lastCall.shape) : lastCall.shape[i] # -1

\* C10: the collected arguments are flattened exactly one level: for
\* arguments that are numbers or arrays of numbers the result has one
\* element per number, in order, each the square of its number halved; an
\* array inside an array argument is not flattened.
C10_FlattenedOneLevel ==
    Called /\ lastCall.fn = "wrapper" =>
        /\ AllNum(lastCall.leaves) =>
              /\ Returned
              /\ Len(lastCall.value.e) = Len(lastCall.leaves)
              /\ \A i \in 1..Len(lastCall.leaves) :
                    IsSquareHalf(lastCall.value.e[i], lastCall.leaves[i])
        /\ OnlyArrays => lastCall.trace[1].v = Arr(lastCall.leaves)

C10_Witness ==
    /\ pc = "done"
    /\ lastCall.fn = "wrapper"
    /\ lastCall.args = <<Num(-1), Arr(<<Num(2)>>)>>
    /\ lastCall.value = Arr(<<Rat(1, 2), Num(2)>>)

\* ------------------------------------------------ claims on the container
\* the class decorator `sealed` has run
SealedRan == variant = "compiled" /\ pc \in {"ready", "done"}

\* the last attempt tried to give Ryazi a member it did not have
Attached(a) ==
    /\ a.obj = "Ryazi"
    /\ ~a.existed
    /\ a.op \in {"assign", "define"}

\* what a call of the member with [2, 3, 4] gives in this state
MemberResult(pr, orig) ==
    IF "modifyNumbers" \in DOMAIN pr["Ryazi"]
       /\ pr["Ryazi"]["modifyNumbers"].value \in {"halve", "wrapper", "other"}
    THEN CallFn(pr["Ryazi"]["modifyNumbers"].value, orig,
                <<Arr(<<Num(2), Num(3), Num(4)>>)>>)
    ELSE Completion("TypeError", Undefined, <<>>)

Reconfigured(a, attrs) ==
    /\ a.obj = "Ryazi"
    /\ a.existed
    /\ a.op = "delete" \/ (a.op = "define" /\ a.attr \in attrs)

\* C7 (as claimed): attempts to remove a member of the container or to
\* reconfigure a member's descriptor fail, and the member set stays the one
\* at seal time.
C7_RemoveReconfigureFail ==
    SealedRan /\ Reconfigured(attempt, {"writable", "enumerable", "configurable", "all"}) =>
        /\ attempt.outcome # "ok"
        /\ DOMAIN props["Ryazi"] = {"prototype", "modifyNumbers"}

\* C7 (amended): once `sealed` has run, an attempt to remove a member of
\* Ryazi, or to change a member's enumerable or configurable attribute, is
\* rejected, and no attempt changes the member set of Ryazi or of its
\* prototype.
C7_SealedMemberSetFixed ==
    [][SealedRan =>
          /\ \A o \in Objects : DOMAIN props'[o] = DOMAIN props[o]
          /\ Reconfigured(attempt', {"enumerable", "configurable", "all"})
             /\ ~attempt'.thenCalled =>
                /\ attempt'.outcome \in {"TypeError", "false"}
                /\ props' = props
      ]_vars

C7_Witness ==
    /\ SealedRan
    /\ Reconfigured(attempt, {})
    /\ attempt.outcome = "false"
    /\ DOMAIN props["Ryazi"] = {"prototype", "modifyNumbers"}

\* ------------------------------------------------------ the chained call
\* the second call's argument is the result of a first call on numbers
ChainedOnNumbers ==
    /\ pc = "again"
    /\ lastCall.fn = "wrapper"
    /\ Len(lastCall.source) > 0
    /\ \A i \in 1..Len(lastCall.source) : IsFinite(lastCall.source[i])

\* x^2 / 2, over the reals, is 0 or 2
RealSquareHalfIs0Or2(x) == IsNum(x) /\ (x.n = 0 \/ x.n * x.n = 4 * x.d * x.d)

\* C11 (as claimed): modifyNumbers(modifyNumbers(S)) differs from
\* modifyNumbers(S) whenever S has an element x with x^2/2 not in {0, 2}.
C11_NotIdempotent ==
    ChainedOnNumbers
    /\ (\E i \in 1..Len(lastCall.source) :
           ~RealSquareHalfIs0Or2(lastCall.source[i])) =>
        lastCall.value # lastCall.args[1]

\* C11 (amended): modifyNumbers(modifyNumbers([2,3,4])) differs from
\* modifyNumbers([2,3,4]), and modifyNumbers(modifyNumbers(S)) differs from
\* modifyNumbers(S) exactly when some element of modifyNumbers(S), as
\* computed in double arithmetic, is not 0, 2 or Infinity.
C11_NotIdempotentUnlessFixed ==
    ChainedOnNumbers =>
        /\ Returned
        /\ (lastCall.value # lastCall.args[1]) <=>
              (\E i \in 1..Len(lastCall.args[1].e) :
                  lastCall.args[1].e[i] \notin {Num(0), Num(2), Inf})
        /\ lastCall.source = <<Num(2), Num(3), Num(4)>> =>
              /\ lastCall.args[1] = Arr(<<Num(2), Rat(9, 2), Num(8)>>)
              /\ lastCall.value = Arr(<<Num(2), Rat(81, 8), Num(32)>>)

C11_Witness ==
    /\ ChainedOnNumbers
    /\ lastCall.source = <<Num(2), Num(3), Num(4)>>
    /\ lastCall.value = Arr(<<Num(2), Rat(81, 8), Num(32)>>)

\* C12: a call of modifyNumbers leaves every array the caller passed with
\* the elements it had, and the array it returns is a new one, none of the
\* caller's.
C12_InputUntouchedResultFresh ==
    Called /\ lastCall.fn = "wrapper" =>
        /\ Len(lastCall.heapAfter) >= Len(lastCall.heapBefore)
        /\ \A i \in 1..Len(lastCall.heapBefore) :
              lastCall.heapAfter[i] = lastCall.heapBefore[i]
        /\ Returned =>
              /\ lastCall.ret > Len(lastCall.heapBefore)
              /\ lastCall.ret <= Len(lastCall.heapAfter)
              /\ lastCall.heapAfter[lastCall.ret] = lastCall.value.e
        /\ ~Returned => lastCall.ret = 0

C12_Witness ==
    /\ pc = "done"
    /\ lastCall.fn = "wrapper"
    /\ lastCall.args = <<Arr(<<Num(-2), Num(1)>>)>>
    /\ lastCall.heapBefore = << <<Num(-2), Num(1)>> >>
    /\ lastCall.heapAfter[1] = <<Num(-2), Num(1)>>
    /\ lastCall.ret = 5
    /\ lastCall.heapAfter[5] = <<Num(2), Rat(1, 2)>>

\* the method decorator has run
Installed == pc \notin {"class", "method"}

\* C13: once `square` is installed the undecorated halving function is no
\* member of the container or of its prototype: it is held by the wrapper
\* only, the member is the wrapper until other code replaces it, and no
\* call through Ryazi.modifyNumbers runs the halving function on unsquared
\* input ([2,3,4] never gives [1,1.5,2]).
C13_OnlyWrappedReachable ==
    Installed =>
        /\ \A o \in Objects : \A k \in DOMAIN props[o] : props[o][k].value # "halve"
        /\ original = "halve"
        /\ attempt.op = "none" => props["Ryazi"]["modifyNumbers"].value = "wrapper"
        /\ lastCall.fn # "halve"
        /\ Called /\ lastCall.args = <<Arr(<<Num(2), Num(3), Num(4)>>)>> =>
              lastCall.value # Arr(<<Num(1), Rat(3, 2), Num(2)>>)

C13_Witness ==
    /\ pc = "done"
    /\ attempt.obj = "Ryazi"
    /\ attempt.op = "define"
    /\ attempt.outcome = "ok"
    /\ attempt.thenCalled
    /\ lastCall.fn = "wrapper"
    /\ lastCall.value = Arr(<<Num(2), Rat(9, 2), Num(8)>>)

\* ------------------------------------------------- claims on invocations
\* C14: under any interleaving of the invocations of several call sites,
\* each invocation ends as the same call ends when it runs alone: its
\* completion is a function of its own arguments.
C14_NoInterference ==
    \A c \in Sites :
       sites[c].at = "returned" =>
          LET alone == SquareWrapper("halve", sites[c].arguments)
          IN  /\ sites[c].outcome = alone.outcome
              /\ sites[c].value = alone.value

\* two invocations in progress at once, one ahead of the other, then done
C14_Witness ==
    /\ sites["a"].at = "returned"
    /\ sites["a"].arguments = <<Arr(<<Num(2), Num(3), Num(4)>>)>>
    /\ sites["a"].value = Arr(<<Num(2), Rat(9, 2), Num(8)>>)
    /\ sites["b"].at = "squared"
    /\ sites["b"].arguments = <<Num(-2), Arr(<<Num(1)>>)>>
    /\ sites["b"].sq = <<Num(4), Num(1)>>

\* C17: after the class is defined no invocation changes the pipeline: a
\* step of an invocation leaves the objects and the captured function as
\* they are, and after any sequence of invocations the member is the
\* wrapper and the wrapper delegates to the halving function captured at
\* decoration time.
C17_CallsLeavePipeline ==
    /\ [][(sites' # sites \/ lastCall' # lastCall) =>
             /\ props' = props
             /\ ext' = ext
             /\ original' = original]_vars
    /\ [](pc \in {"ready", "done"} =>
             /\ props["Ryazi"]["modifyNumbers"].value = "wrapper"
             /\ original = "halve")

C17_Witness ==
    /\ pc = "done"
    /\ \A c \in Sites : sites[c].at = "returned" /\ sites[c].outcome = "return"
    /\ sites["a"].arguments # sites["b"].arguments
    /\ props["Ryazi"]["modifyNumbers"].value = "wrapper"
    /\ original = "halve"

\* C15: the result of a call does not depend on sealing: in the compiled
\* script, where `sealed` has run, and in the source, where it is commented
\* out, a call ends as the wrapper over the halving function ends on the
\* same arguments.
C15_SealingNotObservable ==
    Called /\ pc = "done" =>
        LET plain == SquareWrapper("halve", lastCall.args)
        IN  /\ lastCall.fn = "wrapper"
            /\ lastCall.outcome = plain.outcome
            /\ lastCall.value = plain.value

C15_Witness ==
    /\ pc = "done"
    /\ variant = "compiled"
    /\ ~ext["Ryazi"]
    /\ lastCall.args = <<Arr(<<Num(-1), Num(2)>>)>>
    /\ lastCall.value = Arr(<<Rat(1, 2), Num(2)>>)

\* the last attempt assigned to a member Ryazi already had
Reassigned(a) ==
    /\ a.obj = "Ryazi"
    /\ a.existed
    /\ a.op = "assign"
    /\ ~a.thenCalled

\* C16: sealing leaves the members writable: once `sealed` has run, an
\* assignment to the existing member modifyNumbers replaces its value as
\* long as no other code has made the member read-only, and the set of
\* member names stays as it was.
C16_SealedValueWritable ==
    /\ [](SealedRan /\ attempt.op = "none" =>
             /\ ~ext["Ryazi"]
             /\ props["Ryazi"]["modifyNumbers"].writable
             /\ ~props["Ryazi"]["modifyNumbers"].configurable)
    /\ [][SealedRan /\ Reassigned(attempt')
          /\ props["Ryazi"]["modifyNumbers"].writable =>
             /\ attempt'.outcome = "ok"
             /\ props'["Ryazi"]["modifyNumbers"].value = "other"
             /\ DOMAIN props'["Ryazi"] = DOMAIN props["Ryazi"]]_vars

C16_Witness ==
    /\ SealedRan
    /\ attempt.obj = "Ryazi" /\ attempt.existed /\ attempt.op = "assign"
    /\ attempt.outcome = "ok"
    /\ attempt.thenCalled
    /\ lastCall.fn = "other"
    /\ props["Ryazi"]["modifyNumbers"].value = "other"
    /\ DOMAIN props["Ryazi"] = {"prototype", "modifyNumbers"}

\* C18: the method decorator runs before the class decorator: the wrapper
\* is installed while the class is extensible and the member configurable,
\* and when `sealed` seals the class the member is already the wrapper.
C18_WrappedBeforeSealed ==
    /\ [](~ext["Ryazi"] =>
             /\ "modifyNumbers" \in DOMAIN props["Ryazi"]
             /\ props["Ryazi"]["modifyNumbers"].value = "wrapper"
             /\ original = "halve")
    /\ [][pc = "method" /\ pc' # "method" =>
             /\ ext["Ryazi"]
             /\ props["Ryazi"]["modifyNumbers"].configurable
             /\ props'["Ryazi"]["modifyNumbers"].value = "wrapper"]_vars
    /\ [][ext["Ryazi"] /\ ~ext'["Ryazi"] => pc = "decorate"]_vars

C18_Witness ==
    /\ variant = "compiled"
    /\ pc = "ready"
    /\ ~ext["Ryazi"]
    /\ props["Ryazi"]["modifyNumbers"].value = "wrapper"
    /\ ~props["Ryazi"]["modifyNumbers"].configurable

\* C19: `sealed` seals the constructor and its prototype: after it has run
\* neither is extensible, no member of either is configurable, an attempt
\* to add a member to either or to remove a member of either is rejected,
\* and both keep the members they had.
C19_BothSealed ==
    SealedRan =>
        /\ \A o \in Objects :
              /\ ~ext[o]
              /\ \A k \in DOMAIN props[o] : ~props[o][k].configurable
        /\ DOMAIN props["Ryazi"] = {"prototype", "modifyNumbers"}
        /\ DOMAIN props["prototype"] = {"constructor"}
        /\ ~attempt.existed /\ attempt.op \in {"assign", "define"} =>
              attempt.outcome \in {"TypeError", "ignored"}
        /\ attempt.existed /\ attempt.op = "delete" =>
              attempt.outcome \in {"TypeError", "false"}

C19_Witness ==
    /\ SealedRan
    /\ attempt.obj = "prototype"
    /\ attempt.op = "delete"
    /\ attempt.existed
    /\ attempt.outcome = "TypeError"
    /\ DOMAIN props["prototype"] = {"constructor"}

====
